---- MODULE Spec2Model ----
(***************************************************************************)
(* Model of pyon/ion/process.py: IonProcessThread, the per-process control *)
(* loop that serialises calls routed by listeners.                         *)
(*                                                                         *)
(* Execution contexts (gevent greenlets) are modelled by interleaving:     *)
(*   - callers / listener workers : RoutingCall, CancelOrAbort, NotifyStop *)
(*   - the control greenlet       : Ctrl* actions, one per branch of the   *)
(*                                  loop body of _control_flow             *)
(*   - the hub                    : Interrupt* actions, delivery of a      *)
(*                                  kill(block=False) scheduled earlier    *)
(*   - the clock                  : Tick                                   *)
(* The body of an operation is a suspension point: between CtrlBeginCall   *)
(* and CtrlReturn / CtrlRaise / InterruptInCall every other context may    *)
(* run.  The control greenlet is also suspended while it waits in          *)
(* Queue.get (ctrl_pc = "wait").                                           *)
(*                                                                         *)
(* calltuple and start_proc_time are locals of the loop body; outside the  *)
(* body they are dead and the model keeps them at NoCall and 0.            *)
(*                                                                         *)
(* A Future (AsyncResult) is identified by the number of the route call    *)
(* that created it, so the identifiers also give the enqueue order.        *)
(***************************************************************************)
EXTENDS Integers, Sequences, FiniteSets, TLC

\* ---- bounds of the model ----
MaxCalls == 3        \* number of _routing_call invocations
MaxCancels == 2      \* number of cancel_or_abort_call invocations
MaxTime == 1         \* the clock get_ion_ts() runs over 0..MaxTime
MaxWorkers == 2      \* number of listener workers spawned
MaxStops == 2        \* number of _notify_stop invocations
MaxShutdownCalls == 1  \* route calls in the shutdown and supervision scenarios
MaxHbCalls == 2      \* route calls in the heartbeat scenarios

\* ---- configuration (CFG.get_safe), small values in place of the defaults
\* cc.timeout.heartbeat_proc_count_threshold (default 30)
CountThreshold == 2
\* cc.timeout.heartbeat_proc_time_threshold (default 30 s), in clock units
TimeThreshold == 2

\* the clock of the heartbeat scenarios runs past the time threshold
MaxHbTime == TimeThreshold + 1
\* the heartbeat counter of a stalled call is followed past the threshold
MaxBeatCount == CountThreshold + 2

\* ---- values ----
None == 0            \* Python None as the value of _ctrl_current
NoTime == -1         \* Python None as the value of _start_time
NoDeadline == -1     \* context is None or carries no 'reply-by'

\* the calling greenlets (greenlet.getcurrent() in _routing_call)
Callers == {"gl_a", "gl_b"}
NoCaller == "no_gl"
ARs == 1..MaxCalls
\* the greenlet that makes the n-th route call: two listener workers
\* taking turns (the core never looks into calling_gl, it only keeps it)
CallerOf(n) == IF n % 2 = 1 THEN "gl_a" ELSE "gl_b"
\* 'reply-by' of a context: absent, or a time of the clock
Deadlines == {NoDeadline, 0, 1}

\* the listener objects handed to the process
Listeners == {"l1", "l2"}
\* the exception of a listener worker that died in listen()
ListenerError == "ListenerError"
\* traceback.extract_stack of the control greenlet: the places an
\* operation body can be seen at; NoStack is None
Stacks == {"st_a", "st_b"}
NoStack == "st_none"

\* AsyncResult values: "unset" (not ready), "False" (the cancellation
\* sentinel set by _cancel_pending_call), "res" (value returned by the
\* operation), "None" (res left at its initial None).
ARValues == {"unset", "False", "res", "None"}

\* An entry of _ctrl_queue: the tuple put by _routing_call, or the
\* StopIteration class put by _notify_stop.
CallTuple(gl, ar, reply_by) ==
    [kind |-> "call", gl |-> gl, ar |-> ar, reply_by |-> reply_by]

StopIterationItem ==
    [kind |-> "stop", gl |-> NoCaller, ar |-> 0, reply_by |-> NoDeadline]

NoCall ==
    [kind |-> "none", gl |-> NoCaller, ar |-> 0, reply_by |-> NoDeadline]

VARIABLES
    now,              \* int(get_ion_ts())
    next_ar,          \* number of AsyncResults created by _routing_call
    ctrl_queue,       \* self._ctrl_queue
    ar_value,         \* value of each AsyncResult
    ctrl_pc,          \* control greenlet: "none" (not spawned), "wait",
                      \* "call", "exited" (StopIteration), "failed"
    ctrl_current,     \* self._ctrl_current
    calltuple,        \* local of _control_flow: the tuple whose body runs
    start_proc_time,  \* local of _control_flow: when that body started
    start_time,       \* self._start_time
    proc_time,        \* self._proc_time
    errors,           \* self._errors
    gl_kills,         \* exceptions thrown into calling greenlets
    pending_kills,    \* scheduled kills of the control greenlet
    stop_pc,          \* _notify_stop: "idle", "waiting", "done", "raised"
    cleanup_runs,     \* invocations of _cleanup_method
    proc_killed,      \* cause passed to self.proc.kill by _child_failed
    startup_listeners,  \* self._startup_listeners
    listeners,        \* self.listeners
    listener_map,     \* self._listener_map: listener -> worker number, 0 = absent
    workers,          \* the spawned listener workers: [l, st], st one of
                      \* "running", "ended", "failed", "reported"
    closes,           \* close() invocations per listener
    n_starts,         \* number of start_listeners invocations
    heartbeat_op,     \* self._heartbeat_op
    heartbeat_count,  \* self._heartbeat_count
    heartbeat_time,   \* self._heartbeat_time
    heartbeat_stack,  \* self._heartbeat_stack
    stack,            \* the stack of the control greenlet
    hbst,             \* the tuple returned by the last heartbeat()
    \* ---- history (observations, never read by the program) ----
    fate,             \* per AsyncResult: what the loop did with its tuple
    started,          \* AsyncResults in the order their bodies started
    ar_sets,          \* number of set() calls per AsyncResult
    n_cancels,        \* number of cancel_or_abort_call invocations
    exit_cause,       \* why the control greenlet ended
    stop_mark,        \* next_ar when _notify_stop put the marker, or -1
    late,             \* AsyncResults dequeued after their reply-by
    began_at,         \* clock reading when the running body was entered
    busy_sum,         \* sum of the durations of the bodies that have ended
    n_stops,          \* number of _notify_stop invocations
    hb_seen,          \* heartbeat samples of the tracked call (saturating)
    hb_same,          \* those of them that saw the stack of the sample before
    hb_last           \* the stack at the last sample of the tracked call

coreVars == <<now, next_ar, ctrl_queue, ar_value, ctrl_pc, ctrl_current,
              calltuple, start_proc_time, start_time, proc_time, errors,
              gl_kills, pending_kills, stop_pc, cleanup_runs, proc_killed>>
histVars == <<fate, started, ar_sets, n_cancels, exit_cause, stop_mark,
              late, began_at, busy_sum>>
lsnVars == <<startup_listeners, listeners, listener_map, workers, closes,
             n_starts>>
hbVars == <<heartbeat_op, heartbeat_count, heartbeat_time, heartbeat_stack,
            stack, hbst, hb_seen, hb_same, hb_last>>
vars == <<coreVars, histVars, lsnVars, hbVars, n_stops>>

\* ---- helpers modelling pieces of the code ----

\* gevent Queue.put as used by _routing_call and _notify_stop
\* (QueuePutFront: faulty variant, a LIFO queue)
QueuePutFront(q, item) == <<item>> \o q
QueuePut(q, item) == Append(q, item)

\* AsyncResult.ready()
Ready(ar) == ar_value[ar] # "unset"

\* has_pending_call: the for loop unpacks every queue entry as a 6-tuple
\* until it finds the AsyncResult; unpacking the StopIteration class
\* raises TypeError.
RECURSIVE PendingScan(_, _)
PendingScan(q, ar) ==
    IF q = <<>> THEN "False"
    ELSE IF Head(q).kind = "stop" THEN "TypeError"
    ELSE IF Head(q).ar = ar THEN "True"
    ELSE PendingScan(Tail(q), ar)

\* (has_pending_callHeadOnly: faulty variant, looks at the first entry only)
has_pending_callHeadOnly(ar) ==
    IF ctrl_queue = <<>> THEN "False"
    ELSE PendingScan(<<Head(ctrl_queue)>>, ar)
has_pending_call(ar) == PendingScan(ctrl_queue, ar)

\* context is not None and 'reply-by' in context
HasDeadline(item) == item.reply_by # NoDeadline

\* the reply-by check of _control_flow
\* (ExpiredNever: faulty variant, the check left out)
ExpiredNever(item, t) == FALSE
Expired(item, t) == HasDeadline(item) /\ t >= item.reply_by

CtrlAlive == ctrl_pc \in {"wait", "call"}

Init ==
    /\ now = 0
    /\ next_ar = 0
    /\ ctrl_queue = <<>>
    /\ ar_value = [a \in ARs |-> "unset"]
    /\ ctrl_pc = "none"
    /\ ctrl_current = None
    /\ calltuple = NoCall
    /\ start_proc_time = 0
    /\ start_time = NoTime
    /\ proc_time = 0
    /\ errors = <<>>
    /\ gl_kills = {}
    /\ pending_kills = 0
    /\ stop_pc = "idle"
    /\ cleanup_runs = 0
    /\ proc_killed = "none"
    /\ fate = [a \in ARs |-> "queued"]
    /\ started = <<>>
    /\ ar_sets = [a \in ARs |-> 0]
    /\ n_cancels = 0
    /\ exit_cause = "none"
    /\ stop_mark = -1
    /\ late = {}
    /\ began_at = 0
    /\ busy_sum = 0
    /\ startup_listeners = <<>>
    /\ listeners = <<>>
    /\ listener_map = [l \in Listeners |-> 0]
    /\ workers = <<>>
    /\ closes = [l \in Listeners |-> 0]
    /\ n_starts = 0
    /\ heartbeat_op = None
    /\ heartbeat_count = 0
    /\ heartbeat_time = NoTime
    /\ heartbeat_stack = NoStack
    /\ stack = "st_a"
    /\ hbst = <<TRUE, TRUE, TRUE>>
    /\ n_stops = 0
    /\ hb_seen = 0
    /\ hb_same = 0
    /\ hb_last = NoStack

\* time_stats: (total time, idle time, processing time)
\* (time_statsIdleIsTotal: faulty variant, the busy time is not taken off)
time_statsIdleIsTotal ==
    LET running_time == now - start_time
        idle_time == running_time
    IN <<running_time, idle_time, proc_time>>
time_stats ==
    LET running_time == now - start_time
        idle_time == running_time - proc_time
    IN <<running_time, idle_time, proc_time>>

\* the clock advances up to limit; time 0 is the time at which target()
\* runs
TickTo(limit) ==
    /\ ctrl_pc # "none"
    /\ now < limit
    /\ now' = now + 1
    /\ UNCHANGED <<next_ar, ctrl_queue, ar_value, ctrl_pc, ctrl_current,
                   calltuple, start_proc_time, start_time, proc_time, errors,
                   gl_kills, pending_kills, stop_pc, cleanup_runs,
                   proc_killed, histVars>>
    /\ UNCHANGED <<lsnVars, hbVars, n_stops>>

Tick == TickTo(MaxTime)

\* target(): record the start time and spawn _control_flow, which sets
\* _ready_control and waits on the queue.
Target ==
    /\ ctrl_pc = "none"
    /\ start_time' = now
    /\ ctrl_pc' = "wait"
    /\ UNCHANGED <<now, next_ar, ctrl_queue, ar_value, ctrl_current,
                   calltuple, start_proc_time, proc_time, errors, gl_kills,
                   pending_kills, stop_pc, cleanup_runs, proc_killed,
                   histVars>>
    /\ UNCHANGED <<lsnVars, hbVars, n_stops>>

\* _routing_call(call, context, ...): create an AsyncResult, put the tuple.
RoutingCall(gl, reply_by) ==
    /\ next_ar < MaxCalls
    /\ gl = CallerOf(next_ar + 1)
    /\ next_ar' = next_ar + 1
    /\ ctrl_queue' = QueuePut(ctrl_queue, CallTuple(gl, next_ar + 1, reply_by))
    /\ UNCHANGED <<now, ar_value, ctrl_pc, ctrl_current, calltuple,
                   start_proc_time, start_time, proc_time, errors, gl_kills,
                   pending_kills, stop_pc, cleanup_runs, proc_killed,
                   histVars>>
    /\ UNCHANGED <<lsnVars, hbVars, n_stops>>

\* ---- cancel_or_abort_call ----

\* the branch cancel_or_abort_call(ar) takes:
\*   "TypeError" : has_pending_call raised, nothing else happened
\*   "cancel"    : _cancel_pending_call set the AsyncResult to False
\*   "interrupt" : _interrupt_control_thread was called
\*   "noop"      : the AsyncResult was not pending and already set
CancelBranch(ar) ==
    IF has_pending_call(ar) = "TypeError" THEN "TypeError"
    ELSE IF has_pending_call(ar) = "True" THEN "cancel"
    ELSE IF ~Ready(ar) THEN "interrupt"
    ELSE "noop"

\* the descriptor carrying ar is an entry of the queue
InQueue(ar) ==
    \E i \in 1..Len(ctrl_queue) :
        ctrl_queue[i].kind = "call" /\ ctrl_queue[i].ar = ar

\* cancel_or_abort_call(ar), with _cancel_pending_call and
\* _interrupt_control_thread.  Greenlet.kill(block=False) schedules the
\* throw for a later run of the hub and does nothing for a dead greenlet.
CancelOrAbort(ar) ==
    /\ ar \in 1..next_ar
    /\ n_cancels < MaxCancels
    /\ n_cancels' = n_cancels + 1
    /\ LET b == CancelBranch(ar) IN
        /\ ar_value' = IF b = "cancel"
                       THEN [ar_value EXCEPT ![ar] = "False"] ELSE ar_value
        /\ ar_sets' = IF b = "cancel"
                      THEN [ar_sets EXCEPT ![ar] = @ + 1] ELSE ar_sets
        /\ pending_kills' = IF b = "interrupt" /\ CtrlAlive
                            THEN pending_kills + 1 ELSE pending_kills
    /\ UNCHANGED <<now, next_ar, ctrl_queue, ctrl_pc, ctrl_current, calltuple,
                   start_proc_time, start_time, proc_time, errors, gl_kills,
                   stop_pc, cleanup_runs, proc_killed,
                   fate, started, exit_cause, stop_mark, late, began_at,
                   busy_sum>>
    /\ UNCHANGED <<lsnVars, hbVars, n_stops>>

\* ---- _control_flow ----

\* history: the AsyncResults dequeued at a time past their reply-by
LateAfter(item) ==
    IF HasDeadline(item) /\ now > item.reply_by
    THEN late \cup {item.ar} ELSE late

\* what the loop leaves alone when it takes an entry off the queue
CtrlGetUnchanged ==
    UNCHANGED <<now, next_ar, ar_value, start_time, proc_time, errors,
                gl_kills, pending_kills, stop_pc, cleanup_runs, proc_killed,
                ar_sets, n_cancels, stop_mark, busy_sum>>

\* Queue.next() gets the StopIteration marker and raises it: the for loop
\* ends and the greenlet returns.
CtrlStopIteration ==
    /\ ctrl_pc = "wait"
    /\ ctrl_queue # <<>>
    /\ Head(ctrl_queue).kind = "stop"
    /\ ctrl_queue' = Tail(ctrl_queue)
    /\ ctrl_pc' = "exited"
    /\ exit_cause' = "stop"
    /\ UNCHANGED <<ctrl_current, calltuple, start_proc_time, fate, started,
                   late, began_at>>
    /\ CtrlGetUnchanged
    /\ UNCHANGED <<lsnVars, hbVars, n_stops>>

\* the dequeued tuple is past its reply-by: continue
CtrlSkipExpired ==
    /\ ctrl_pc = "wait"
    /\ ctrl_queue # <<>>
    /\ Head(ctrl_queue).kind = "call"
    /\ Expired(Head(ctrl_queue), now)
    /\ ctrl_queue' = Tail(ctrl_queue)
    /\ fate' = [fate EXCEPT ![Head(ctrl_queue).ar] = "expired"]
    /\ late' = LateAfter(Head(ctrl_queue))
    /\ UNCHANGED <<ctrl_pc, ctrl_current, calltuple, start_proc_time,
                   started, exit_cause, began_at>>
    /\ CtrlGetUnchanged
    /\ UNCHANGED <<lsnVars, hbVars, n_stops>>

\* the dequeued tuple's AsyncResult is already set (cancelled): continue
CtrlSkipCancelled ==
    /\ ctrl_pc = "wait"
    /\ ctrl_queue # <<>>
    /\ Head(ctrl_queue).kind = "call"
    /\ ~Expired(Head(ctrl_queue), now)
    /\ Ready(Head(ctrl_queue).ar)
    /\ ctrl_queue' = Tail(ctrl_queue)
    /\ fate' = [fate EXCEPT ![Head(ctrl_queue).ar] = "skipped"]
    /\ late' = LateAfter(Head(ctrl_queue))
    /\ UNCHANGED <<ctrl_pc, ctrl_current, calltuple, start_proc_time,
                   started, exit_cause, began_at>>
    /\ CtrlGetUnchanged
    /\ UNCHANGED <<lsnVars, hbVars, n_stops>>

\* push the context, set _ctrl_current and enter the operation body
CtrlBeginCall ==
    /\ ctrl_pc = "wait"
    /\ ctrl_queue # <<>>
    /\ Head(ctrl_queue).kind = "call"
    /\ ~Expired(Head(ctrl_queue), now)
    /\ ~Ready(Head(ctrl_queue).ar)
    /\ ctrl_queue' = Tail(ctrl_queue)
    /\ calltuple' = Head(ctrl_queue)
    /\ start_proc_time' = now
    /\ ctrl_current' = Head(ctrl_queue).ar
    /\ ctrl_pc' = "call"
    /\ fate' = [fate EXCEPT ![Head(ctrl_queue).ar] = "running"]
    /\ started' = Append(started, Head(ctrl_queue).ar)
    /\ late' = LateAfter(Head(ctrl_queue))
    /\ began_at' = now
    /\ UNCHANGED exit_cause
    /\ CtrlGetUnchanged
    /\ UNCHANGED <<lsnVars, hbVars, n_stops>>

\* value of _ctrl_current after the finally clause
\* (FinallyCurrentKept: faulty variant, the marker is not cleared)
FinallyCurrentKept(ar) == ar
FinallyCurrent(ar) == None

\* where the control greenlet goes after an except clause handled the
\* failure of an operation: on to ar.set(res) and the next Queue.get
\* (AfterExceptDies: faulty variant, the exception is raised again)
AfterExceptDies(kind) == "failed"
AfterExcept(kind) == "wait"

\* ar.set(res) at the end of the loop body, reached on every way out of
\* the try statement
\* (ArSetOnlyOnReturn: faulty variant, ar.set(res) inside the try)
ArSetOnlyOnReturn(ar, res) ==
    IF res = "None" THEN ar_value ELSE [ar_value EXCEPT ![ar] = res]
ArSet(ar, res) == [ar_value EXCEPT ![ar] = res]

\* self._proc_time after the finally clause, entered at clock reading t
\* (ProcTimeAssigned: faulty variant, = in place of +=)
ProcTimeAssigned(t) == t - start_proc_time
ProcTimeAfter(t) == proc_time + (t - start_proc_time)

\* the finally clause and ar.set(res), common to every way out of the body
CallExit(res, outcome, pc) ==
    /\ proc_time' = ProcTimeAfter(now)
    /\ ctrl_current' = FinallyCurrent(calltuple.ar)
    /\ ar_value' = ArSet(calltuple.ar, res)
    /\ ar_sets' = [ar_sets EXCEPT ![calltuple.ar] = @ + 1]
    /\ fate' = [fate EXCEPT ![calltuple.ar] = outcome]
    /\ ctrl_pc' = pc
    /\ calltuple' = NoCall
    /\ start_proc_time' = 0
    /\ busy_sum' = busy_sum + (now - began_at)
    /\ began_at' = 0

\* the operation returns a value
CtrlReturn ==
    /\ ctrl_pc = "call"
    /\ CallExit("res", "ok", "wait")
    /\ UNCHANGED <<now, next_ar, ctrl_queue, start_time, errors, gl_kills, pending_kills, stop_pc,
                   cleanup_runs, proc_killed,
                   started, n_cancels, exit_cause, stop_mark, late>>
    /\ UNCHANGED <<lsnVars, hbVars, n_stops>>

\* the exception thrown into the calling greenlet: the exception itself
\* for TypeError and IonException ("client"), a ContainerError otherwise
\* (KillForOriginal: faulty variant, every exception is forwarded as it is)
KillForOriginal(kind, item) ==
    [gl |-> item.gl, ar |-> item.ar, exc |-> "original"]
KillFor(kind, item) ==
    [gl |-> item.gl, ar |-> item.ar,
     exc |-> IF kind = "client" THEN "original" ELSE "ContainerError"]

\* self._errors after the except clause
\* (ErrorsAfterAlways: faulty variant, client errors are recorded too)
ErrorsAfterAlways(kind, item) == Append(errors, item.ar)
ErrorsAfter(kind, item) ==
    IF kind = "client" THEN errors ELSE Append(errors, item.ar)

\* the operation raises an Exception: kind "client" is a TypeError or an
\* IonException, kind "internal" any other Exception
CtrlRaise(kind) ==
    /\ ctrl_pc = "call"
    /\ gl_kills' = gl_kills \cup {KillFor(kind, calltuple)}
    /\ errors' = ErrorsAfter(kind, calltuple)
    /\ CallExit("None", kind, AfterExcept(kind))
    /\ UNCHANGED <<now, next_ar, ctrl_queue, start_time, pending_kills, stop_pc, cleanup_runs,
                   proc_killed, started, n_cancels, exit_cause, stop_mark, late>>
    /\ UNCHANGED <<lsnVars, hbVars, n_stops>>

\* ---- delivery of a scheduled kill(OperationInterruptedException) ----

\* thrown inside the operation body: caught by the except clause
InterruptInCall ==
    /\ pending_kills > 0
    /\ ctrl_pc = "call"
    /\ pending_kills' = pending_kills - 1
    /\ CallExit("None", "interrupted", "wait")
    /\ UNCHANGED <<now, next_ar, ctrl_queue, start_time, errors, gl_kills, stop_pc, cleanup_runs,
                   proc_killed, started, n_cancels, exit_cause, stop_mark, late>>
    /\ UNCHANGED <<lsnVars, hbVars, n_stops>>

\* thrown while the greenlet waits in Queue.get, outside the try: the
\* exception leaves _control_flow
InterruptInWait ==
    /\ pending_kills > 0
    /\ ctrl_pc = "wait"
    /\ pending_kills' = pending_kills - 1
    /\ ctrl_pc' = "failed"
    /\ exit_cause' = "OperationInterruptedException"
    /\ UNCHANGED <<now, next_ar, ctrl_queue, ar_value, ctrl_current,
                   calltuple, start_proc_time, start_time, proc_time, errors,
                   gl_kills, stop_pc, cleanup_runs, proc_killed,
                   fate, started, ar_sets, n_cancels, stop_mark, late,
                   began_at, busy_sum>>
    /\ UNCHANGED <<lsnVars, hbVars, n_stops>>

\* the greenlet is dead by the time the hub runs the kill: nothing happens
InterruptDead ==
    /\ pending_kills > 0
    /\ ~CtrlAlive
    /\ pending_kills' = pending_kills - 1
    /\ UNCHANGED <<now, next_ar, ctrl_queue, ar_value, ctrl_pc, ctrl_current,
                   calltuple, start_proc_time, start_time, proc_time, errors,
                   gl_kills, stop_pc, cleanup_runs, proc_killed, histVars>>
    /\ UNCHANGED <<lsnVars, hbVars, n_stops>>

\* ---- supervision and shutdown ----

\* _child_failed(child): the thread manager reports the failed control
\* greenlet and the process greenlet is killed with the child's exception
\* self.proc.kill(exc): the cause the process greenlet is killed with
\* (nothing happens to a greenlet that is dead already)
\* (KilledWithNothing: faulty variant, the failure is not passed on)
KilledWithNothing(exc) == proc_killed
KilledWith(exc) == IF proc_killed = "none" THEN exc ELSE proc_killed

ChildFailed ==
    /\ ctrl_pc = "failed"
    /\ proc_killed = "none"
    /\ proc_killed' = KilledWith(exit_cause)
    /\ UNCHANGED <<now, next_ar, ctrl_queue, ar_value, ctrl_pc, ctrl_current,
                   calltuple, start_proc_time, start_time, proc_time, errors,
                   gl_kills, pending_kills, stop_pc, cleanup_runs, histVars>>
    /\ UNCHANGED <<lsnVars, hbVars, n_stops>>

\* a supervised child died with an exception
AnyChildFailed ==
    \/ ctrl_pc = "failed"
    \/ \E w \in DOMAIN workers : workers[w].st \in {"failed", "reported"}

\* the number of entries of the list q that are l
RECURSIVE Occurrences(_, _)
Occurrences(q, l) ==
    IF q = <<>> THEN 0
    ELSE (IF Head(q) = l THEN 1 ELSE 0) + Occurrences(Tail(q), l)

\* _notify_stop, up to the wait: close every entry of self.listeners and
\* put StopIteration into the queue.  Nothing in it looks at an earlier
\* invocation; a repeated invocation starts when the earlier one is over.
NotifyStop ==
    /\ ctrl_pc # "none"
    /\ stop_pc # "waiting"
    /\ n_stops < MaxStops
    /\ n_stops' = n_stops + 1
    /\ closes' = [l \in Listeners |-> closes[l] + Occurrences(listeners, l)]
    /\ ctrl_queue' = QueuePut(ctrl_queue, StopIterationItem)
    /\ stop_pc' = "waiting"
    /\ stop_mark' = next_ar
    /\ UNCHANGED <<now, next_ar, ar_value, ctrl_pc, ctrl_current, calltuple,
                   start_proc_time, start_time, proc_time, errors, gl_kills,
                   pending_kills, cleanup_runs, proc_killed,
                   fate, started, ar_sets, n_cancels, exit_cause, late,
                   began_at, busy_sum>>
    /\ UNCHANGED <<startup_listeners, listeners, listener_map, workers,
                   n_starts, hbVars>>

\* _notify_stop, after the wait: wait_children(30) returns when the
\* children have ended or the timeout has passed, and the cleanup method
\* runs
WaitChildrenReturn ==
    /\ stop_pc = "waiting"
    /\ ~AnyChildFailed
    /\ stop_pc' = "done"
    /\ cleanup_runs' = cleanup_runs + 1
    /\ UNCHANGED <<now, next_ar, ctrl_queue, ar_value, ctrl_pc, ctrl_current,
                   calltuple, start_proc_time, start_time, proc_time, errors,
                   gl_kills, pending_kills, proc_killed, histVars>>
    /\ UNCHANGED <<lsnVars, hbVars, n_stops>>

\* wait_children(30) raises the exception of a child that died with one:
\* _notify_stop ends there
WaitChildrenRaise ==
    /\ stop_pc = "waiting"
    /\ AnyChildFailed
    /\ stop_pc' = "raised"
    /\ UNCHANGED <<now, next_ar, ctrl_queue, ar_value, ctrl_pc, ctrl_current,
                   calltuple, start_proc_time, start_time, proc_time, errors,
                   gl_kills, pending_kills, cleanup_runs, proc_killed,
                   histVars>>
    /\ UNCHANGED <<lsnVars, hbVars, n_stops>>

\* ---- listeners ----

\* thread_manager.spawn(listener.listen), for each listener of the list q
RECURSIVE SpawnAll(_, _)
SpawnAll(ws, q) ==
    IF q = <<>> THEN ws
    ELSE SpawnAll(Append(ws, [l |-> Head(q), st |-> "running"]), Tail(q))

\* self._listener_map[listener] = <the new worker>, for each listener of q;
\* n is the number of workers spawned before
RECURSIVE MapAll(_, _, _)
MapAll(m, n, q) ==
    IF q = <<>> THEN m
    ELSE MapAll([m EXCEPT ![Head(q)] = n + 1], n + 1, Tail(q))

\* the branch of add_endpoint for a started process, for each listener
\* of q in turn
AttachAll(q) ==
    /\ workers' = SpawnAll(workers, q)
    /\ listener_map' = MapAll(listener_map, Len(workers), q)
    /\ listeners' = listeners \o q

\* add_endpoint(listener): spawn and track it when the process runs
\* (self.proc), else keep it for start_listeners
AddEndpoint(l) ==
    /\ IF ctrl_pc # "none"
       THEN /\ Len(workers) < MaxWorkers
            /\ AttachAll(<<l>>)
            /\ UNCHANGED startup_listeners
       ELSE /\ Len(startup_listeners) < MaxWorkers
            /\ startup_listeners' = Append(startup_listeners, l)
            /\ UNCHANGED <<listeners, listener_map, workers>>
    /\ UNCHANGED <<coreVars, histVars, hbVars, closes, n_starts, n_stops>>

\* start_listeners(), called on a started process as its docstring asks:
\* add_endpoint for every entry of _startup_listeners, which stays as it is
StartListeners ==
    /\ ctrl_pc # "none"
    /\ startup_listeners # <<>>
    /\ Len(workers) + Len(startup_listeners) <= MaxWorkers
    /\ AttachAll(startup_listeners)
    /\ n_starts' = n_starts + 1
    /\ UNCHANGED <<coreVars, histVars, hbVars, startup_listeners, closes,
                   n_stops>>

\* listen() of a closed listener returns: the worker ends
ListenerEnds(w) ==
    /\ w \in DOMAIN workers
    /\ workers[w].st = "running"
    /\ closes[workers[w].l] > 0
    /\ workers' = [workers EXCEPT ![w].st = "ended"]
    /\ UNCHANGED <<coreVars, histVars, hbVars, startup_listeners, listeners,
                   listener_map, closes, n_starts, n_stops>>

\* listen() raises: the worker dies with an exception
ListenerFails(w) ==
    /\ w \in DOMAIN workers
    /\ workers[w].st = "running"
    /\ workers' = [workers EXCEPT ![w].st = "failed"]
    /\ UNCHANGED <<coreVars, histVars, hbVars, startup_listeners, listeners,
                   listener_map, closes, n_starts, n_stops>>

\* _child_failed(child) for a failed listener worker: kill the process
\* greenlet with the worker's exception (nothing happens to a dead
\* greenlet)
ListenerChildFailed(w) ==
    /\ w \in DOMAIN workers
    /\ workers[w].st = "failed"
    /\ workers' = [workers EXCEPT ![w].st = "reported"]
    /\ proc_killed' = KilledWith(ListenerError)
    /\ UNCHANGED <<now, next_ar, ctrl_queue, ar_value, ctrl_pc, ctrl_current,
                   calltuple, start_proc_time, start_time, proc_time, errors,
                   gl_kills, pending_kills, stop_pc, cleanup_runs, histVars,
                   hbVars, startup_listeners, listeners, listener_map, closes,
                   n_starts, n_stops>>

\* ---- heartbeat ----

\* the operation body moves on: the stack of the control greenlet changes
Progress ==
    /\ ctrl_pc = "call"
    /\ \E st \in Stacks \ {stack} : stack' = st
    /\ UNCHANGED <<coreVars, histVars, lsnVars, heartbeat_op, heartbeat_count,
                   heartbeat_time, heartbeat_stack, hbst, hb_seen, hb_same,
                   hb_last, n_stops>>

\* every entry of self.listeners is in _listener_map with a live worker
listeners_ok ==
    \A i \in DOMAIN listeners :
        /\ listener_map[listeners[i]] # 0
        /\ workers[listener_map[listeners[i]]].st = "running"

\* self._ctrl_thread.running
ctrl_thread_ok == CtrlAlive

\* st == self._heartbeat_stack
\* (SameSnapshotAlways: faulty variant, the stack is not compared)
SameSnapshotAlways(st) == TRUE
SameSnapshot(st) == st = heartbeat_stack

\* the test that fails the heartbeat of a call seen before at the same
\* place: count is the incremented counter, elapsed the time since
\* _heartbeat_time
\* (StalledStrict: faulty variant, > in the time test;
\*  StalledOnce: faulty variant, == in the count test and no time test)
StalledStrict(count, elapsed) ==
    count > CountThreshold \/ elapsed > TimeThreshold
StalledOnce(count, elapsed) == count = CountThreshold + 1
Stalled(count, elapsed) ==
    count > CountThreshold \/ elapsed >= TimeThreshold

\* the heartbeat fields after each branch of heartbeat()
HbRepeat ==
    [op |-> heartbeat_op, count |-> heartbeat_count + 1,
     time |-> heartbeat_time, stack |-> heartbeat_stack]

HbProgress(st, t) ==
    [op |-> heartbeat_op, count |-> 1, time |-> t, stack |-> st]

\* (HbNewOpCarried: faulty variant, counter and time go on from the
\* call tracked before)
HbNewOpCarried(st, t) ==
    [op |-> ctrl_current, count |-> heartbeat_count + 1,
     time |-> IF heartbeat_time = NoTime THEN t ELSE heartbeat_time,
     stack |-> st]
HbNewOp(st, t) ==
    [op |-> ctrl_current, count |-> 1, time |-> t, stack |-> st]

HbIdle ==
    [op |-> None, count |-> 0,
     time |-> heartbeat_time, stack |-> heartbeat_stack]

\* the branch heartbeat() takes
HbBranch ==
    IF ctrl_current = None THEN "idle"
    ELSE IF ctrl_current # heartbeat_op THEN "newop"
    ELSE IF SameSnapshot(stack) THEN "repeat"
    ELSE "progress"

Min(a, b) == IF a < b THEN a ELSE b

\* heartbeat(), on a started process
Heartbeat ==
    /\ ctrl_pc # "none"
    /\ HbBranch = "repeat" => heartbeat_count < MaxBeatCount
    /\ LET b == HbBranch
           h == CASE b = "idle" -> HbIdle
                  [] b = "newop" -> HbNewOp(stack, now)
                  [] b = "repeat" -> HbRepeat
                  [] b = "progress" -> HbProgress(stack, now)
           heartbeat_ok ==
               ~(b = "repeat" /\ Stalled(heartbeat_count + 1,
                                         now - heartbeat_time))
       IN
       /\ heartbeat_op' = h.op
       /\ heartbeat_count' = h.count
       /\ heartbeat_time' = h.time
       /\ heartbeat_stack' = h.stack
       /\ hbst' = <<listeners_ok, ctrl_thread_ok, heartbeat_ok>>
       /\ hb_seen' = CASE b = "idle" -> 0
                       [] b = "newop" -> 1
                       [] OTHER -> Min(hb_seen + 1, MaxBeatCount)
       /\ hb_same' = CASE b \in {"idle", "newop"} -> 0
                       [] stack = hb_last -> Min(hb_same + 1, MaxBeatCount)
                       [] OTHER -> hb_same
       /\ hb_last' = IF b = "idle" THEN NoStack ELSE stack
    /\ UNCHANGED <<coreVars, histVars, lsnVars, stack, n_stops>>

Next ==
    \/ Tick
    \/ Target
    \/ \E gl \in Callers, d \in Deadlines : RoutingCall(gl, d)
    \/ \E ar \in ARs : CancelOrAbort(ar)
    \/ CtrlStopIteration
    \/ CtrlSkipExpired
    \/ CtrlSkipCancelled
    \/ CtrlBeginCall
    \/ CtrlReturn
    \/ \E kind \in {"client", "internal"} : CtrlRaise(kind)
    \/ InterruptInCall
    \/ InterruptInWait
    \/ InterruptDead
    \/ ChildFailed
    \/ (stop_pc = "idle" /\ NotifyStop)
    \/ WaitChildrenReturn
    \/ WaitChildrenRaise

Spec == Init /\ [][Next]_vars

\* the heartbeat scenarios: calls without deadline are routed and executed
\* while target() takes heartbeats and the clock runs past the threshold
NextHeartbeat ==
    \/ TickTo(MaxHbTime)
    \/ Target
    \/ (next_ar < MaxHbCalls /\ RoutingCall(CallerOf(next_ar + 1), NoDeadline))
    \/ CtrlBeginCall
    \/ CtrlReturn
    \/ Progress
    \/ Heartbeat

SpecHeartbeat == Init /\ [][NextHeartbeat]_vars

\* target() takes a heartbeat every heartbeat_secs for as long as the
\* control greenlet has not exited
SpecHeartbeatFair == SpecHeartbeat /\ WF_vars(Heartbeat)

\* the shutdown scenarios: listeners are attached, their workers end or
\* fail, calls are routed, cancelled and executed, and _notify_stop is
\* invoked up to MaxStops times
NextShutdown ==
    \/ Target
    \/ \E l \in Listeners : AddEndpoint(l)
    \/ StartListeners
    \/ (next_ar < MaxShutdownCalls
           /\ RoutingCall(CallerOf(next_ar + 1), NoDeadline))
    \/ \E ar \in ARs : CancelOrAbort(ar)
    \/ CtrlStopIteration
    \/ CtrlSkipCancelled
    \/ CtrlBeginCall
    \/ CtrlReturn
    \/ \E kind \in {"client", "internal"} : CtrlRaise(kind)
    \/ InterruptInCall
    \/ InterruptInWait
    \/ InterruptDead
    \/ ChildFailed
    \/ \E w \in 1..MaxWorkers : ListenerEnds(w)
    \/ \E w \in 1..MaxWorkers : ListenerFails(w)
    \/ \E w \in 1..MaxWorkers : ListenerChildFailed(w)
    \/ NotifyStop
    \/ WaitChildrenReturn
    \/ WaitChildrenRaise

SpecShutdown == Init /\ [][NextShutdown]_vars

\* the supervision scenarios: listener workers and the control greenlet
\* run, operations fail, calls are cancelled, children die; no stop
NextSupervision ==
    \/ Target
    \/ \E l \in Listeners : AddEndpoint(l)
    \/ (next_ar < MaxShutdownCalls
           /\ RoutingCall(CallerOf(next_ar + 1), NoDeadline))
    \/ \E ar \in ARs : CancelOrAbort(ar)
    \/ CtrlSkipCancelled
    \/ CtrlBeginCall
    \/ CtrlReturn
    \/ \E kind \in {"client", "internal"} : CtrlRaise(kind)
    \/ InterruptInCall
    \/ InterruptInWait
    \/ InterruptDead
    \/ ChildFailed
    \/ \E w \in 1..MaxWorkers : ListenerFails(w)
    \/ \E w \in 1..MaxWorkers : ListenerChildFailed(w)

SpecSupervision == Init /\ [][NextSupervision]_vars

TypeOK ==
    /\ now \in 0..MaxTime
    /\ next_ar \in 0..MaxCalls
    /\ ctrl_pc \in {"none", "wait", "call", "exited", "failed"}
    /\ ctrl_current \in {None} \cup ARs
    /\ \A a \in ARs : ar_value[a] \in ARValues
    /\ pending_kills \in 0..MaxCancels
    /\ proc_time \in 0..MaxTime

\* ======================================================================
\* Properties
\* ======================================================================

RanBody(f) == fate[f] \in {"running", "ok", "client", "internal", "interrupted"}

Finished(f) == fate[f] \in {"ok", "client", "internal", "interrupted"}

\* C1: operation bodies run in the order in which their descriptors were
\* enqueued (AsyncResult numbers are enqueue numbers), and a body has
\* finished before the body of a later call starts; skipped descriptors
\* do not reorder the calls that are executed.
C1_FifoExecution ==
    \A i, j \in 1..Len(started) :
        i < j => /\ started[i] < started[j]
                 /\ Finished(started[i])

\* two calls executed around a descriptor that was cancelled in the queue
C1_Witness ==
    /\ started = <<1, 3>>
    /\ fate[2] = "skipped"
    /\ Finished(3)

\* C2: at most one call is being executed, only by the control greenlet,
\* and _ctrl_current is None or the AsyncResult of that call.
C2_OneCallAtATime ==
    /\ Cardinality({f \in ARs : fate[f] = "running"}) <= 1
    /\ \A f \in ARs :
        fate[f] = "running" => ctrl_pc = "call" /\ ctrl_current = f
    /\ ctrl_current # None => fate[ctrl_current] = "running"
    /\ ctrl_pc = "call" => ctrl_current # None

\* a call is being executed after an earlier call has finished and while
\* the descriptor of a later call waits in the queue
C2_Witness ==
    /\ ctrl_pc = "call"
    /\ ctrl_current = 2
    /\ Finished(1)
    /\ InQueue(3)

\* C3: cancel_or_abort_call(f) invoked while f's descriptor is in the
\* queue sets f to the cancellation sentinel before it returns and sends
\* no interrupt, and the body of a call so cancelled never runs.
C3_CancelQueuedResolves ==
    [][\A f \in ARs :
        /\ (InQueue(f) /\ CancelOrAbort(f)) =>
              /\ ar_value'[f] = "False"
              /\ pending_kills' = pending_kills
        /\ ar_value[f] = "False" => ~RanBody(f)']_vars

\* C4: a descriptor dequeued after its reply-by is dropped: its body never
\* runs, its AsyncResult is left as it was at the dequeue from then on,
\* and the loop goes back to the queue.
C4_ExpiredCallDropped ==
    [][\A f \in late' :
        /\ fate'[f] = "expired"
        /\ ar_value'[f] = ar_value[f]
        /\ ar_sets'[f] = ar_sets[f]
        /\ f \notin late => ctrl_pc' = "wait"]_vars

\* a call dequeued after its reply-by was dropped and left unset, the
\* next call was executed and the loop is back waiting on the queue
C4_Witness ==
    /\ 1 \in late
    /\ ar_value[1] = "unset"
    /\ fate[2] = "ok"
    /\ ctrl_pc = "wait"

\* C5: the delivery of an interrupt never ends the control loop: the loop
\* is back waiting on the queue afterwards.
C5_InterruptKeepsLoop ==
    [][(pending_kills' < pending_kills /\ CtrlAlive) => ctrl_pc' = "wait"]_vars

\* C6: after the operation raised a client or an internal error the loop
\* is back waiting on the queue.
C6_ErrorKeepsLoop ==
    [][\A f \in ARs :
        (fate[f] = "running" /\ fate'[f] \in {"client", "internal"}) =>
            /\ ctrl_pc' = "wait"
            /\ ctrl_queue' = ctrl_queue
            /\ ctrl_queue # <<>> =>
                 (ENABLED (CtrlStopIteration \/ CtrlSkipExpired
                           \/ CtrlSkipCancelled \/ CtrlBeginCall))']_vars

\* a client error and an internal error were each followed by the
\* execution of the next call
C6_Witness ==
    /\ fate[1] = "client"
    /\ fate[2] = "internal"
    /\ fate[3] = "ok"

\* C7: the control loop ends only by taking the stop marker off the queue
\* or after a child failure was escalated.
C7_LoopEndsOnlyByStop ==
    [][(CtrlAlive /\ ~CtrlAlive') =>
          (exit_cause' = "stop" \/ proc_killed # "none")]_vars

\* C8: no AsyncResult is set more than once.
C8_ResolvedAtMostOnce ==
    \A f \in ARs : ar_sets[f] <= 1

\* C9: a failed operation is reported to the greenlet that routed the
\* call and to no other: the exception itself and no entry in _errors for
\* a client error, a ContainerError and one entry in _errors otherwise;
\* the AsyncResult of the failed call is set.
C9_FailureDelivery ==
    /\ \A k \in gl_kills :
        /\ fate[k.ar] \in {"client", "internal"}
        /\ k.gl = CallerOf(k.ar)
        /\ k.exc = IF fate[k.ar] = "client" THEN "original"
                   ELSE "ContainerError"
    /\ \A f \in ARs :
        /\ fate[f] \in {"client", "internal"} =>
              /\ Cardinality({k \in gl_kills : k.ar = f}) = 1
              /\ Ready(f)
        /\ Cardinality({i \in DOMAIN errors : errors[i] = f})
              = IF fate[f] = "internal" THEN 1 ELSE 0

\* calls of two different callers failed, one with a client error and one
\* with an internal error
C9_Witness ==
    /\ fate[1] = "internal"
    /\ fate[2] = "client"
    /\ Cardinality(gl_kills) = 2

\* C10 as stated: once the loop has ended on the stop marker, every
\* AsyncResult routed before the stop is set.
C10_AllResolvedAtStop ==
    exit_cause = "stop" => \A f \in 1..stop_mark : Ready(f)

\* C10 amended: once the loop has ended on the stop marker, every
\* descriptor routed before the stop has been taken off the queue and
\* worked off, and its AsyncResult is set unless the descriptor was
\* dropped as expired.
C10_DrainedAtStop ==
    exit_cause = "stop" =>
        \A f \in 1..stop_mark :
            /\ ~InQueue(f)
            /\ fate[f] \in {"ok", "client", "internal", "interrupted",
                            "skipped", "expired"}
            /\ fate[f] # "expired" => Ready(f)

\* three calls were routed before the stop: one executed, one cancelled
\* in the queue, one dropped as expired and left unset
C10_Witness ==
    /\ exit_cause = "stop"
    /\ stop_mark = 3
    /\ \E f, g, h \in ARs :
        /\ ar_value[f] = "res"
        /\ fate[g] = "skipped" /\ ar_value[g] = "False"
        /\ fate[h] = "expired" /\ ar_value[h] = "unset"

\* C11: over any sequence of operations, repeated stop requests included,
\* close() is invoked at most once on every listener attached once and
\* the cleanup method runs at most once.
C11_ShutdownOnce ==
    /\ \A l \in Listeners : Occurrences(listeners, l) = 1 => closes[l] <= 1
    /\ cleanup_runs <= 1

\* C12: for every time_stats reading taken after start the total is the
\* sum of idle and busy time, and the busy time of a reading is never
\* less than the busy time of an earlier reading.
C12_TimeStatsConsistent ==
    [][/\ start_time' # NoTime =>
            time_stats'[1] = time_stats'[2] + time_stats'[3]
       /\ start_time # NoTime =>
            /\ time_stats'[3] >= time_stats[3]
            /\ time_stats'[1] >= time_stats[1]]_vars

\* a reading taken while the second call is executing, after the first
\* call has added to the busy time
C12_Witness ==
    /\ start_time # NoTime
    /\ ctrl_pc = "call"
    /\ ctrl_current = 2
    /\ time_stats = <<1, 0, 1>>

\* C13: _proc_time is the sum of the durations of the bodies that were
\* executed and have ended, whatever their outcome: it changes only when
\* a body ends, by the duration of that body, and a descriptor skipped as
\* cancelled or expired adds nothing.  With A, B, C enqueued in that order
\* and B cancelled in the queue, A and C run in that order and are set to
\* their results, B is set to the sentinel and never runs.
C13_BusyTimeIsSumOfDurations ==
    [][/\ proc_time' = busy_sum'
       /\ \A f \in ARs :
            /\ (fate[f] = "running" /\ Finished(f)') =>
                   proc_time' = proc_time + (now - began_at)
            /\ (fate[f] = "queued" /\ fate'[f] \in {"skipped", "expired"}) =>
                   proc_time' = proc_time
       /\ fate' = fate => proc_time' = proc_time
       /\ (fate'[1] = "ok" /\ fate'[2] = "skipped" /\ fate'[3] = "ok") =>
            /\ SubSeq(started', 1, 2) = <<1, 3>>
            /\ ar_value'[1] = "res"
            /\ ar_value'[2] = "False"
            /\ ar_value'[3] = "res"]_vars

\* the scenario, with a body that took time
C13_Witness ==
    /\ fate[1] = "ok" /\ fate[2] = "skipped" /\ fate[3] = "ok"
    /\ busy_sum > 0
    /\ proc_time = busy_sum

\* C16: while the queue holds only call descriptors, has_pending_call(f)
\* is true exactly for the AsyncResults whose descriptor is in the queue,
\* that is for the routed ones the loop has not dequeued; it is false for
\* one that is executing, completed, dropped or not routed.  (It is an
\* operator over the state: it changes nothing.)
C16_PendingIffQueued ==
    (\A i \in 1..Len(ctrl_queue) : ctrl_queue[i].kind = "call") =>
        \A f \in ARs :
            /\ has_pending_call(f) = IF InQueue(f) THEN "True" ELSE "False"
            /\ InQueue(f) <=> (f <= next_ar /\ fate[f] = "queued")

\* one call dropped as expired, one executing, one pending in the queue
C16_Witness ==
    /\ fate[1] = "expired"
    /\ fate[2] = "running"
    /\ Len(ctrl_queue) = 1
    /\ has_pending_call(3) = "True"
    /\ has_pending_call(2) = "False"
    /\ has_pending_call(1) = "False"

\* the heartbeat sees the running call where it saw it before, later
\* than the time threshold after it first saw it there, and its last
\* answer was that the call is not stalled
Stuck ==
    /\ ctrl_current # None
    /\ ctrl_current = heartbeat_op
    /\ stack = heartbeat_stack
    /\ now - heartbeat_time > TimeThreshold
    /\ hbst[3]

\* C14: with heartbeats being taken, a call that stays at the same stack
\* for longer than the time threshold gets a heartbeat whose third
\* component is false, and once it has, every later heartbeat that finds
\* the same call at the same stack answers false too.
C14_StallEventuallyFlagged ==
    /\ Stuck ~> ~Stuck
    /\ [][(/\ Heartbeat
            /\ ~hbst[3]
            /\ ctrl_current # None
            /\ ctrl_current = heartbeat_op
            /\ stack = heartbeat_stack) => ~hbst'[3]]_vars

\* a call was flagged on the time test alone, after standing still for
\* longer than the time threshold
C14_Witness ==
    /\ ~hbst[3]
    /\ ctrl_current # None
    /\ ctrl_current = heartbeat_op
    /\ stack = heartbeat_stack
    /\ now - heartbeat_time > TimeThreshold
    /\ heartbeat_count <= CountThreshold

\* C15: a call that every heartbeat sample found at another stack than
\* the sample before is never reported as stalled.
C15_ProgressNeverFlagged ==
    (ctrl_current # None /\ heartbeat_op = ctrl_current /\ hb_same = 0)
        => hbst[3]

\* more samples than the count threshold, the last one later than the
\* time threshold after the call began, each at a changed stack
C15_Witness ==
    /\ ctrl_current # None
    /\ heartbeat_op = ctrl_current
    /\ hb_same = 0
    /\ hb_seen > CountThreshold
    /\ heartbeat_time - began_at > TimeThreshold
    /\ hbst[3]

\* C17: a failed child (control greenlet or listener worker) has the
\* process greenlet killed with the child's exception: the report is due
\* while the process has not been killed and does just that, the process
\* is killed by nothing else, and an operation that raises kills neither
\* the control greenlet nor the process.
C17_ChildFailureKillsProcess ==
    /\ [](/\ (ctrl_pc = "failed" /\ proc_killed = "none") =>
                ENABLED (ChildFailed /\ proc_killed' = exit_cause)
          /\ \A w \in DOMAIN workers :
                (workers[w].st = "failed" /\ proc_killed = "none") =>
                    ENABLED (ListenerChildFailed(w)
                             /\ proc_killed' = ListenerError))
    /\ [][/\ proc_killed' # proc_killed =>
               /\ proc_killed = "none"
               /\ \/ ctrl_pc = "failed" /\ proc_killed' = exit_cause
                  \/ \E w \in DOMAIN workers :
                        /\ workers[w].st = "failed"
                        /\ proc_killed' = ListenerError
          /\ \A f \in ARs :
               (fate[f] = "running" /\ fate'[f] \in {"client", "internal"})
                   => (proc_killed' = proc_killed /\ ctrl_pc' = "wait")]_vars

\* an operation failed and the loop went on; a listener worker failed and
\* the process was killed with its exception
C17_Witness ==
    /\ fate[1] \in {"client", "internal"}
    /\ ctrl_pc = "wait"
    /\ \E w \in DOMAIN workers : workers[w].st = "reported"
    /\ proc_killed = ListenerError

\* C18: a descriptor is dropped for expiry only if the time at the
\* dequeue is past its reply-by; one dequeued at its reply-by is executed
\* unless it was cancelled.
C18_ExpiredOnlyPastDeadline ==
    \A f \in ARs : fate[f] = "expired" => f \in late

\* C19 as stated: a heartbeat that finds the tracked call at the same
\* stack increments the counter and answers false exactly when the counter
\* exceeds the count threshold or the time since _heartbeat_time exceeds
\* the time threshold.
C19_FlagFalseIffExceeded ==
    [][(Heartbeat /\ HbBranch = "repeat") =>
          /\ heartbeat_count' = heartbeat_count + 1
          /\ hbst'[3] = ~(\/ heartbeat_count' > CountThreshold
                          \/ now - heartbeat_time > TimeThreshold)]_vars

\* C19 amended: ... or the time since _heartbeat_time has reached the time
\* threshold.
C19_FlagFalseIffReached ==
    [][(Heartbeat /\ HbBranch = "repeat") =>
          /\ heartbeat_count' = heartbeat_count + 1
          /\ hbst'[3] = ~(\/ heartbeat_count' > CountThreshold
                          \/ now - heartbeat_time >= TimeThreshold)]_vars

\* a heartbeat answered false with the counter within its threshold and
\* the elapsed time equal to the time threshold
C19_Witness ==
    /\ ~hbst[3]
    /\ ctrl_current # None
    /\ ctrl_current = heartbeat_op
    /\ heartbeat_count <= CountThreshold
    /\ now - heartbeat_time = TimeThreshold

\* C20 as stated: a heartbeat that finds no call clears the tracked call,
\* the stack, the counter and the time; one that finds another call than
\* the tracked one starts over with that call; one that finds the tracked
\* call at another stack resets counter and time.
C20_ResetOnEveryChange ==
    [][Heartbeat =>
          /\ HbBranch = "idle" =>
                /\ heartbeat_op' = None
                /\ heartbeat_count' = 0
                /\ heartbeat_stack' = NoStack
                /\ heartbeat_time' = NoTime
          /\ HbBranch = "newop" =>
                /\ heartbeat_op' = ctrl_current
                /\ heartbeat_count' = 1
                /\ heartbeat_stack' = stack
                /\ heartbeat_time' = now
          /\ HbBranch = "progress" =>
                /\ heartbeat_op' = heartbeat_op
                /\ heartbeat_count' = 1
                /\ heartbeat_stack' = stack
                /\ heartbeat_time' = now]_vars

\* C20 amended: a heartbeat that finds no call clears the tracked call
\* and the counter and leaves the stack and the time as they are; the
\* other two cases as stated.  The counter never exceeds the number of
\* samples taken of the tracked call, and the time kept for a running
\* tracked call was taken while that call was running.
C20_ResetKeepsEvidenceApart ==
    [][Heartbeat =>
          /\ HbBranch = "idle" =>
                /\ heartbeat_op' = None
                /\ heartbeat_count' = 0
                /\ heartbeat_stack' = heartbeat_stack
                /\ heartbeat_time' = heartbeat_time
          /\ HbBranch = "newop" =>
                /\ heartbeat_op' = ctrl_current
                /\ heartbeat_count' = 1
                /\ heartbeat_stack' = stack
                /\ heartbeat_time' = now
          /\ HbBranch = "progress" =>
                /\ heartbeat_op' = heartbeat_op
                /\ heartbeat_count' = 1
                /\ heartbeat_stack' = stack
                /\ heartbeat_time' = now
          /\ heartbeat_count' <= hb_seen'
          /\ (ctrl_current # None /\ ~hbst'[3]) =>
                /\ hb_same' > 0
                /\ heartbeat_time' >= began_at]_vars

\* the first call ran longer than the time threshold; a heartbeat has
\* just begun to track the second call
C20_Witness ==
    /\ Finished(1)
    /\ busy_sum > TimeThreshold
    /\ ctrl_current = 2
    /\ heartbeat_op = 2
    /\ heartbeat_count = 1
    /\ hb_seen = 1
    /\ heartbeat_time >= began_at
    /\ hbst[3]

\* C21: cancel_or_abort_call(f) schedules an interrupt of the control
\* greenlet only while the call that carries f is the one being executed.
C21_InterruptOnlyOwnCall ==
    [][\A f \in ARs :
        (CancelOrAbort(f) /\ pending_kills' > pending_kills)
            => ctrl_current = f]_vars

\* C22: when a body that was started ends, its AsyncResult is set before
\* the loop takes the next entry off the queue: to the value returned, or
\* to None after a client error, an internal error or an interrupt; and
\* it stays set to that.
C22_StartedCallIsSet ==
    [][\A f \in ARs :
        /\ (fate[f] = "running" /\ Finished(f)') =>
              /\ ar_value'[f] = IF fate'[f] = "ok" THEN "res" ELSE "None"
              /\ ar_sets'[f] = ar_sets[f] + 1
              /\ ctrl_queue' = ctrl_queue
              /\ ctrl_current' = None
        /\ Finished(f)' =>
              ar_value'[f] = IF fate'[f] = "ok" THEN "res" ELSE "None"]_vars

\* one call each ended in an internal error, an interrupt and a return
C22_Witness ==
    /\ fate[1] = "internal" /\ ar_value[1] = "None"
    /\ fate[2] = "interrupted" /\ ar_value[2] = "None"
    /\ fate[3] = "ok" /\ ar_value[3] = "res"

\* C23: has_pending_call(f), and with it cancel_or_abort_call(f), raises
\* in no reachable state, for every AsyncResult that was routed.
C23_PendingNeverRaises ==
    \A f \in 1..next_ar :
        /\ has_pending_call(f) # "TypeError"
        /\ CancelBranch(f) # "TypeError"

\* C24: a call routed after _notify_stop put the marker is accepted and
\* its descriptor stays in the queue: its body never runs and the loop
\* never sets its AsyncResult, also after the loop has ended at the marker.
C24_RoutedAfterStopStays ==
    stop_mark # -1 =>
        \A f \in (stop_mark + 1)..next_ar :
            /\ fate[f] = "queued"
            /\ InQueue(f)
            /\ ar_value[f] \in {"unset", "False"}

\* the loop has ended at the marker and a call routed after the stop is
\* left in the queue, unset
C24_Witness ==
    /\ exit_cause = "stop"
    /\ stop_mark = 1
    /\ fate[1] = "ok"
    /\ next_ar = 2
    /\ InQueue(2)
    /\ ar_value[2] = "unset"

\* the number of workers spawned for the listener l
WorkersOf(ws, l) == Cardinality({w \in DOMAIN ws : ws[w].l = l})

\* C25: a start_listeners invoked after an earlier one, with every
\* listener buffered once and tracked at most once, neither spawns a
\* worker for nor tracks again a listener that has been started, so that
\* a listener keeps one entry in self.listeners and one worker.
C25_StartedListenerNotSpawnedAgain ==
    [][(/\ StartListeners
        /\ n_starts >= 1
        /\ \A l \in Listeners :
              /\ Occurrences(startup_listeners, l) <= 1
              /\ Occurrences(listeners, l) <= 1) =>
          \A l \in Listeners :
              listener_map[l] # 0 =>
                  /\ WorkersOf(workers', l) = WorkersOf(workers, l)
                  /\ Occurrences(listeners', l) = Occurrences(listeners, l)]_vars
====
